---- MODULE Spec2Model ----
(***************************************************************************)
(* Model of the sampling engine of the numerical phantom                   *)
(* (src/simu/phantom.c): the sensitivity combinators xsens / ksens /       *)
(* nosens, the coordinate kernels xkernel / kkernel / nkernel, the grid    *)
(* sampler `sample`, the trajectory sampler `sample_noncart` and the       *)
(* public entry points calc_phantom, calc_circ, calc_ring, calc_sens and   *)
(* calc_phantom_noncart.                                                   *)
(*                                                                         *)
(* Numbers: coordinates are exact rationals <<n, d>> in lowest terms with  *)
(* d > 0.  Complex sample values are kept symbolic: the geometry           *)
(* evaluator phantom() and the coefficient table sens_coeff are external,  *)
(* so a value is the expression tree the code builds from them.            *)
(***************************************************************************)
EXTENDS Integers, Sequences, FiniteSets, TLC

(* ---------------------------------------------------------------------- *)
(* Program constants                                                        *)
(* ---------------------------------------------------------------------- *)
MAX_COILS == 8
COIL_COEFF == 5
\* index of the coil axis; the mask 2 + 4 + 8 of sample_noncart keeps axes 1, 2, 3
COIL_DIM == 3
\* axes modelled: 0 .. COIL_DIM; every further axis of the program has extent 1
DIMS == COIL_DIM + 1

(* ---------------------------------------------------------------------- *)
(* Bounds of the model                                                      *)
(* ---------------------------------------------------------------------- *)
\* spatial extents dims[1], dims[2] range over 1 .. MaxExtent
MaxExtent == 2
\* the coil extent ranges over 1 .. MAX_COILS + ExtraCoils
ExtraCoils == 1
\* a request has at most MaxSlots output slots with a coil index below MAX_COILS
MaxSlots == 8

(* ---------------------------------------------------------------------- *)
(* State                                                                    *)
(* ---------------------------------------------------------------------- *)
VARIABLES
    pc,       \* "idle", "sampling" (inside md_zsample), "done", "failed" (aborted)
    failure,  \* which assert aborted the process: "none", "coil", "traj"
    entry,    \* the public function called
    dims,     \* its dimension vector
    kspace_in, \* its domain flag
    traj_in,  \* its trajectory array (flat, empty for the grid samplers)
    zs_data,  \* the per-call context handed to md_zsample
    kern,     \* the callback handed to md_zsample
    out,      \* the output buffer, by position
    writes,   \* number of stores to each slot
    log,      \* per position: what the callback did there
    todo      \* positions md_zsample has not visited yet

vars == <<pc, failure, entry, dims, kspace_in, traj_in, zs_data, kern, out, writes, log, todo>>

(* ---------------------------------------------------------------------- *)
(* Exact rational arithmetic                                                *)
(* ---------------------------------------------------------------------- *)
Abs(n) == IF n < 0 THEN -n ELSE n

RECURSIVE GCD(_, _)
GCD(a, b) == IF b = 0 THEN a ELSE GCD(b, a % b)

\* the rational n / d (d # 0) in lowest terms with positive denominator
Frac(n, d) ==
    LET g == GCD(Abs(n), Abs(d))
        s == IF d < 0 THEN -1 ELSE 1
    IN  <<(s * n) \div g, (s * d) \div g>>

FracAdd(a, b) == Frac(a[1] * b[2] + b[1] * a[2], a[2] * b[2])
FracDiv(a, k) == Frac(a[1], a[2] * k)
FracLeq(a, b) == a[1] * b[2] <= b[1] * a[2]
FracLess(a, b) == a[1] * b[2] < b[1] * a[2]

\* a complex float; the conversion to double keeps the real part only
Cplx(re, im) == [re |-> re, im |-> im]
CplxDiv(z, k) == [re |-> FracDiv(z.re, k), im |-> FracDiv(z.im, k)]
ToDouble(z) == z.re

(* ---------------------------------------------------------------------- *)
(* Multi-index helpers of the array library num/multind                     *)
(* ---------------------------------------------------------------------- *)
Axes == 0 .. (DIMS - 1)

RECURSIVE Pow2(_)
Pow2(k) == IF k = 0 THEN 1 ELSE 2 * Pow2(k - 1)

MD_IS_SET(flags, k) == (flags \div Pow2(k)) % 2 = 1

\* keep the extents of the axes selected by the bit mask, 1 elsewhere
md_select_dims(D, flags, idims) ==
    [k \in 0 .. (D - 1) |-> IF MD_IS_SET(flags, k) THEN idims[k] ELSE 1]

RECURSIVE ProdBelow(_, _)
ProdBelow(dim, k) == IF k = 0 THEN 1 ELSE dim[k - 1] * ProdBelow(dim, k - 1)

\* dense strides in units of size; an axis of extent 1 gets stride 0
md_calc_strides(D, dim, size) ==
    [k \in 0 .. (D - 1) |-> IF dim[k] = 1 THEN 0 ELSE size * ProdBelow(dim, k)]

RECURSIVE md_calc_offset(_, _, _)
md_calc_offset(D, strides, pos) ==
    IF D = 0 THEN 0
    ELSE strides[D - 1] * pos[D - 1] + md_calc_offset(D - 1, strides, pos)

md_calc_size(D, dim) == ProdBelow(dim, D)

\* a position or dimension vector over the modelled axes
Vec(a, b, c, e) ==
    [k \in Axes |-> CASE k = 0 -> a [] k = 1 -> b [] k = 2 -> c [] OTHER -> e]

\* all positions of an array of extents dim
Indices(dim) ==
    {Vec(a, b, c, e) : a \in 0 .. (dim[0] - 1), b \in 0 .. (dim[1] - 1),
                       c \in 0 .. (dim[2] - 1), e \in 0 .. (dim[COIL_DIM] - 1)}

(* ---------------------------------------------------------------------- *)
(* Geometry evaluators (the krn_t callbacks)                                *)
(* ---------------------------------------------------------------------- *)
\* struct krn_data { kspace, N, el }
KrnData(kspace, N, el) == [kspace |-> kspace, N |-> N, el |-> el]
NULL == [kspace |-> FALSE, N |-> 0, el |-> "NULL"]

\* the external evaluator phantom(N, el, mpos, kspace): an uninterpreted value
phantom(N, el, mpos, kspace) ==
    [fn |-> "phantom", N |-> N, el |-> el, mpos |-> mpos, kspace |-> kspace]

krn(data, mpos) == phantom(data.N, data.el, mpos, data.kspace)

\* the complex constant 1.
One == [fn |-> "1."]

cnst_one(data, mpos) == One

\* call through the function pointer fun
Call(fun, data, mpos) ==
    IF fun = "krn" THEN krn(data, mpos) ELSE cnst_one(data, mpos)

\* number of invocations of phantom() made by one call through fun
GeomCalls(fun) == IF fun = "krn" THEN 1 ELSE 0

(* ---------------------------------------------------------------------- *)
(* Sensitivity combinators                                                  *)
(* ---------------------------------------------------------------------- *)
\* result of a failed assert: the process aborts, no value is produced
Abort == [ok |-> FALSE, val |-> [fn |-> "abort"], geom |-> 0, strat |-> "abort"]

\* the loop nest i, j in 0 .. COIL_COEFF - 1 flattened in execution order
LoopI(k) == (k - 1) \div COIL_COEFF
LoopJ(k) == (k - 1) % COIL_COEFF

\* xsens with the centring shift taken as COIL_COEFF - (1 / 2)
xsens_wrong_shift(c, mpos, data, fun) ==
    IF ~(c < MAX_COILS) THEN Abort
    ELSE LET sh == COIL_COEFF - (1 \div 2)
             val == [k \in 1 .. (COIL_COEFF * COIL_COEFF) |->
                        [coeff |-> <<c, LoopI(k), LoopJ(k)>>,
                         times |-> [fn |-> "cexpf",
                                    fi |-> LoopI(k) - sh,
                                    fj |-> LoopJ(k) - sh,
                                    mpos |-> mpos,
                                    over |-> 4]]]
         IN  [ok |-> TRUE,
              val |-> [op |-> "mul", sum |-> val, by |-> <<Call(fun, data, mpos)>>],
              geom |-> GeomCalls(fun),
              strat |-> "xsens"]

xsens(c, mpos, data, fun) ==
    IF ~(c < MAX_COILS) THEN Abort
    ELSE LET sh == (COIL_COEFF - 1) \div 2
             val == [k \in 1 .. (COIL_COEFF * COIL_COEFF) |->
                        [coeff |-> <<c, LoopI(k), LoopJ(k)>>,
                         times |-> [fn |-> "cexpf",
                                    fi |-> LoopI(k) - sh,
                                    fj |-> LoopJ(k) - sh,
                                    mpos |-> mpos,
                                    over |-> 4]]]
         IN  [ok |-> TRUE,
              val |-> [op |-> "mul", sum |-> val, by |-> <<Call(fun, data, mpos)>>],
              geom |-> GeomCalls(fun),
              strat |-> "xsens"]

\* ksens with the coil check off by one: assert(c < MAX_COILS - 1)
ksens_strict_assert(c, mpos, data, fun) ==
    IF ~(c < MAX_COILS - 1) THEN Abort
    ELSE LET sh == (COIL_COEFF - 1) \div 2
             mpos2(k) == <<FracAdd(mpos[1], Frac(LoopI(k) - sh, 4)),
                           FracAdd(mpos[2], Frac(LoopJ(k) - sh, 4))>>
             val == [k \in 1 .. (COIL_COEFF * COIL_COEFF) |->
                        [coeff |-> <<c, LoopI(k), LoopJ(k)>>,
                         times |-> Call(fun, data, mpos2(k))]]
         IN  [ok |-> TRUE,
              val |-> [op |-> "sum", sum |-> val, by |-> <<>>],
              geom |-> (COIL_COEFF * COIL_COEFF) * GeomCalls(fun),
              strat |-> "ksens"]

ksens(c, mpos, data, fun) ==
    IF ~(c < MAX_COILS) THEN Abort
    ELSE LET sh == (COIL_COEFF - 1) \div 2
             mpos2(k) == <<FracAdd(mpos[1], Frac(LoopI(k) - sh, 4)),
                           FracAdd(mpos[2], Frac(LoopJ(k) - sh, 4))>>
             val == [k \in 1 .. (COIL_COEFF * COIL_COEFF) |->
                        [coeff |-> <<c, LoopI(k), LoopJ(k)>>,
                         times |-> Call(fun, data, mpos2(k))]]
         IN  [ok |-> TRUE,
              val |-> [op |-> "sum", sum |-> val, by |-> <<>>],
              geom |-> (COIL_COEFF * COIL_COEFF) * GeomCalls(fun),
              strat |-> "ksens"]

\* nosens handing the evaluator the two coordinate components swapped
nosens_swapped(c, mpos, data, fun) ==
    [ok |-> TRUE, val |-> Call(fun, data, <<mpos[2], mpos[1]>>), geom |-> GeomCalls(fun),
     strat |-> "nosens"]

nosens(c, mpos, data, fun) ==
    [ok |-> TRUE, val |-> Call(fun, data, mpos), geom |-> GeomCalls(fun),
     strat |-> "nosens"]

(* ---------------------------------------------------------------------- *)
(* Coordinate kernels (the md_zsample callbacks)                            *)
(* ---------------------------------------------------------------------- *)
\* struct data1 / struct data2 in one record; unused members are empty
Data1(sens, dims3, data, fun) ==
    [sens |-> sens, dims |-> dims3, data |-> data, fun |-> fun,
     traj |-> <<>>, istrs |-> <<>>]

Data2(traj, istrs, sens, data, fun) ==
    [sens |-> sens, dims |-> <<>>, data |-> data, fun |-> fun,
     traj |-> traj, istrs |-> istrs]

\* a kernel's result: the combinator's result, the coordinate handed to the
\* combinator and the trajectory offsets read
WithCoord(r, mpos, reads) == r @@ [mpos |-> mpos, reads |-> reads]

\* xkernel whose numerator is taken at the far edge of the pixel: 2 (x + 1) - D
xkernel_far_edge(data, pos) ==
    LET mpos == <<Frac(2 * (pos[1] + 1) - data.dims[1], data.dims[1]),
                  Frac(2 * (pos[2] + 1) - data.dims[2], data.dims[2])>>
        r == IF data.sens THEN xsens(pos[COIL_DIM], mpos, data.data, data.fun)
                          ELSE nosens(pos[COIL_DIM], mpos, data.data, data.fun)
    IN  WithCoord(r, mpos, {})

xkernel(data, pos) ==
    LET mpos == <<Frac(2 * pos[1] - data.dims[1], data.dims[1]),
                  Frac(2 * pos[2] - data.dims[2], data.dims[2])>>
        r == IF data.sens THEN xsens(pos[COIL_DIM], mpos, data.data, data.fun)
                          ELSE nosens(pos[COIL_DIM], mpos, data.data, data.fun)
    IN  WithCoord(r, mpos, {})

\* kkernel keeping a running sample counter shared by all callbacks and
\* using it in place of the position along axis 1
kkernel_counter(data, pos) ==
    LET n == Cardinality({p \in DOMAIN writes : writes[p] > 0})
        mpos == <<Frac(2 * n - data.dims[1], 4),
                  Frac(2 * pos[2] - data.dims[2], 4)>>
        r == IF data.sens THEN ksens(pos[COIL_DIM], mpos, data.data, data.fun)
                          ELSE nosens(pos[COIL_DIM], mpos, data.data, data.fun)
    IN  WithCoord(r, mpos, {})

kkernel(data, pos) ==
    LET mpos == <<Frac(2 * pos[1] - data.dims[1], 4),
                  Frac(2 * pos[2] - data.dims[2], 4)>>
        r == IF data.sens THEN ksens(pos[COIL_DIM], mpos, data.data, data.fun)
                          ELSE nosens(pos[COIL_DIM], mpos, data.data, data.fun)
    IN  WithCoord(r, mpos, {})

nkernel(data, pos) ==
    LET off == md_calc_offset(3, data.istrs, pos)
        mpos == <<ToDouble(CplxDiv(data.traj[off + 0], 2)),
                  ToDouble(CplxDiv(data.traj[off + 1], 2))>>
        r == IF data.sens THEN ksens(pos[COIL_DIM], mpos, data.data, data.fun)
                          ELSE nosens(pos[COIL_DIM], mpos, data.data, data.fun)
    IN  WithCoord(r, mpos, {off + 0, off + 1})

Kernel(name, data, pos) ==
    CASE name = "xkernel" -> xkernel(data, pos)
      [] name = "kkernel" -> kkernel(data, pos)
      [] name = "nkernel" -> nkernel(data, pos)

(* ---------------------------------------------------------------------- *)
(* Empty buffer slots, log entries and context                              *)
(* ---------------------------------------------------------------------- *)
Unwritten == [fn |-> "unwritten"]
NoLog == [strat |-> "none", geom |-> 0, mpos |-> <<>>, reads |-> {}]
NoData == Data1(FALSE, <<>>, NULL, "none")

(* ---------------------------------------------------------------------- *)
(* Inputs                                                                   *)
(* ---------------------------------------------------------------------- *)
Leading == {1, 3}
Extents == 1 .. MaxExtent
CoilExtents == 1 .. (MAX_COILS + ExtraCoils)

\* number of slots of an array of extents d whose coil index is below MAX_COILS
WritableSlots(d) ==
    md_calc_size(COIL_DIM, d) * (IF d[COIL_DIM] < MAX_COILS THEN d[COIL_DIM] ELSE MAX_COILS)

\* dimension vectors of grid requests: every axis is iterated
GridDims ==
    {d \in {Vec(a, b, c, e) : a \in Leading, b \in Extents, c \in Extents, e \in CoilExtents} :
        WritableSlots(d) <= MaxSlots}

\* dimension vectors of trajectory requests: axis 0 is the coordinate triple
TrajDims ==
    {d \in {Vec(a, b, c, e) : a \in Leading, b \in Extents, c \in Extents, e \in CoilExtents} :
        WritableSlots(md_select_dims(DIMS, 2 + 4 + 8, d)) <= MaxSlots}

\* position of a flat trajectory offset in an array of extents d[0] x d[1] x d[2]
TrajComp(d, off) == off % d[0]
TrajX(d, off) == (off \div d[0]) % d[1]
TrajY(d, off) == off \div (d[0] * d[1])

\* the trajectory whose sample (x, y) is the grid point (x - Dx/2, y - Dy/2, 0)
GridTraj(d) ==
    [off \in 0 .. (md_calc_size(3, d) - 1) |->
        CASE TrajComp(d, off) = 0 -> Cplx(Frac(2 * TrajX(d, off) - d[1], 2), Frac(0, 1))
          [] TrajComp(d, off) = 1 -> Cplx(Frac(2 * TrajY(d, off) - d[2], 2), Frac(0, 1))
          [] OTHER -> Cplx(Frac(0, 1), Frac(0, 1))]

\* a trajectory whose entries are all different, with a non-zero imaginary part
RampTraj(d) ==
    [off \in 0 .. (md_calc_size(3, d) - 1) |-> Cplx(Frac(off, 1), Frac(1, 1))]

Trajs(d) == {GridTraj(d), RampTraj(d)}

(* ---------------------------------------------------------------------- *)
(* The generic array sampler md_zsample of the array library num/loop:      *)
(* visits every position once, in no fixed order, and stores the            *)
(* callback's result in the position's slot                                 *)
(* ---------------------------------------------------------------------- *)
md_zsample(D, od, ctx, fun) ==
    /\ pc' = "sampling"
    /\ failure' = "none"
    /\ zs_data' = ctx
    /\ kern' = fun
    /\ out' = [p \in Indices(od) |-> Unwritten]
    /\ writes' = [p \in Indices(od) |-> 0]
    /\ log' = [p \in Indices(od) |-> NoLog]
    /\ todo' = Indices(od)

md_zsample_visit(pos) ==
    /\ pc = "sampling"
    /\ pos \in todo
    /\ \E r \in {Kernel(kern, zs_data, pos)} :
           IF r.ok
           THEN /\ out' = [out EXCEPT ![pos] = r.val]
                /\ writes' = [writes EXCEPT ![pos] = @ + 1]
                /\ log' = [log EXCEPT ![pos] = [strat |-> r.strat, geom |-> r.geom,
                                                 mpos |-> r.mpos, reads |-> r.reads]]
                /\ todo' = todo \ {pos}
                /\ UNCHANGED <<pc, failure>>
           ELSE /\ pc' = "failed"
                /\ failure' = "coil"
                /\ UNCHANGED <<out, writes, log, todo>>
    /\ UNCHANGED <<entry, dims, kspace_in, traj_in, zs_data, kern>>

md_zsample_return ==
    /\ pc = "sampling"
    /\ todo = {}
    /\ pc' = "done"
    /\ UNCHANGED <<failure, entry, dims, kspace_in, traj_in, zs_data, kern, out, writes, log, todo>>

(* ---------------------------------------------------------------------- *)
(* Samplers and public entry points                                         *)
(* ---------------------------------------------------------------------- *)
\* the process makes one sampling call
CanCall == pc = "idle"

\* sample with the sensitivity flag set for every coil extent
sample_always_sens(N, d, D, el, ksp) ==
    LET ctx == Data1(d[COIL_DIM] > 0, [k \in 0 .. 2 |-> d[k]], KrnData(ksp, D, el), "krn")
    IN  /\ dims' = d
        /\ kspace_in' = ksp
        /\ traj_in' = <<>>
        /\ md_zsample(N, d, ctx, IF ksp THEN "kkernel" ELSE "xkernel")

sample(N, d, D, el, ksp) ==
    LET ctx == Data1(d[COIL_DIM] > 1, [k \in 0 .. 2 |-> d[k]], KrnData(ksp, D, el), "krn")
    IN  /\ dims' = d
        /\ kspace_in' = ksp
        /\ traj_in' = <<>>
        /\ md_zsample(N, d, ctx, IF ksp THEN "kkernel" ELSE "xkernel")

calc_phantom(d, ksp) ==
    /\ CanCall
    /\ entry' = "calc_phantom"
    /\ sample(DIMS, d, 10, "shepplogan_mod", ksp)

calc_circ(d, ksp) ==
    /\ CanCall
    /\ entry' = "calc_circ"
    /\ sample(DIMS, d, 1, "phantom_disc", ksp)

calc_ring(d, ksp) ==
    /\ CanCall
    /\ entry' = "calc_ring"
    /\ sample(DIMS, d, 4, "phantom_ring", ksp)

calc_sens(d) ==
    /\ CanCall
    /\ entry' = "calc_sens"
    /\ dims' = d
    /\ kspace_in' = FALSE
    /\ traj_in' = <<>>
    /\ md_zsample(DIMS, d, Data1(TRUE, [k \in 0 .. 2 |-> d[k]], NULL, "cnst_one"), "xkernel")

\* sample_noncart without the check of the leading extent
sample_noncart_unchecked(d, t, D, el) ==
    LET odims == md_select_dims(DIMS, 2 + 4 + 8, d)
        sdims == md_select_dims(DIMS, 1 + 2, d)
        istrs == md_calc_strides(DIMS, sdims, 1)
        ctx == Data2(t, istrs, d[COIL_DIM] > 1, KrnData(TRUE, D, el), "krn")
    IN  /\ dims' = d
        /\ kspace_in' = TRUE
        /\ traj_in' = t
        /\ md_zsample(DIMS, odims, ctx, "nkernel")

sample_noncart(d, t, D, el) ==
    LET odims == md_select_dims(DIMS, 2 + 4 + 8, d)
        sdims == md_select_dims(DIMS, 1 + 2, d)
        istrs == md_calc_strides(DIMS, sdims, 1)
        ctx == Data2(t, istrs, d[COIL_DIM] > 1, KrnData(TRUE, D, el), "krn")
    IN  /\ dims' = d
        /\ kspace_in' = TRUE
        /\ traj_in' = t
        /\ IF 3 = d[0]
           THEN md_zsample(DIMS, odims, ctx, "nkernel")
           ELSE \* assert(3 == dims[0]) aborts before md_zsample is reached
                /\ pc' = "failed"
                /\ failure' = "traj"
                /\ zs_data' = ctx
                /\ kern' = "none"
                /\ out' = [p \in Indices(odims) |-> Unwritten]
                /\ writes' = [p \in Indices(odims) |-> 0]
                /\ log' = [p \in Indices(odims) |-> NoLog]
                /\ todo' = {}

calc_phantom_noncart(d, t) ==
    /\ CanCall
    /\ entry' = "calc_phantom_noncart"
    /\ sample_noncart(d, t, 10, "shepplogan_mod")

(* ---------------------------------------------------------------------- *)
(* Specification                                                            *)
(* ---------------------------------------------------------------------- *)
Init ==
    /\ pc = "idle"
    /\ failure = "none"
    /\ entry = "none"
    /\ dims = Vec(1, 1, 1, 1)
    /\ kspace_in = FALSE
    /\ traj_in = <<>>
    /\ zs_data = NoData
    /\ kern = "none"
    /\ out = [p \in {} |-> Unwritten]
    /\ writes = [p \in {} |-> 0]
    /\ log = [p \in {} |-> NoLog]
    /\ todo = {}

Next ==
    \/ CanCall /\ \E d \in GridDims, ksp \in BOOLEAN : calc_phantom(d, ksp)
    \/ CanCall /\ \E d \in GridDims, ksp \in BOOLEAN : calc_circ(d, ksp)
    \/ CanCall /\ \E d \in GridDims, ksp \in BOOLEAN : calc_ring(d, ksp)
    \/ CanCall /\ \E d \in GridDims : calc_sens(d)
    \/ CanCall /\ \E d \in TrajDims : \E t \in Trajs(d) : calc_phantom_noncart(d, t)
    \/ \E pos \in todo : md_zsample_visit(pos)
    \/ md_zsample_return

Spec == Init /\ [][Next]_vars

(* ---------------------------------------------------------------------- *)
(* Vocabulary of the properties                                             *)
(* ---------------------------------------------------------------------- *)
Slots == DOMAIN out
Written(p) == writes[p] > 0
GridEntries == {"calc_phantom", "calc_circ", "calc_ring"}
GeometryEntries == GridEntries \cup {"calc_phantom_noncart"}

\* the presets: number of ellipses and ellipse list of each geometry sampler
PresetN == [calc_phantom |-> 10, calc_circ |-> 1, calc_ring |-> 4, calc_phantom_noncart |-> 10]
PresetEl == [calc_phantom |-> "shepplogan_mod", calc_circ |-> "phantom_disc",
             calc_ring |-> "phantom_ring", calc_phantom_noncart |-> "shepplogan_mod"]

\* normalized coordinate of a grid position
ImageCoord(p) == <<Frac(2 * p[1] - dims[1], dims[1]), Frac(2 * p[2] - dims[2], dims[2])>>
KSpaceCoord(p) == <<Frac(2 * p[1] - dims[1], 4), Frac(2 * p[2] - dims[2], 4)>>

\* half of the real parts of the trajectory triple starting at offset o
TripleCoord(o) == <<FracDiv(traj_in[o].re, 2), FracDiv(traj_in[o + 1].re, 2)>>

\* the offset of the trajectory triple of the sample at position p
TripleOffset(p) == 3 * (p[1] + dims[1] * p[2])

\* the strategy the coil extent and the domain select
Strategy(ext, ksp) == IF ext = 1 THEN "nosens" ELSE IF ksp THEN "ksens" ELSE "xsens"

(* ---------------------------------------------------------------------- *)
(* C1                                                                       *)
(* ---------------------------------------------------------------------- *)
\* C1: when a coil index >= 8 makes the call fail, no slot of the output
\* buffer has been written at the moment of the failure.
C1_NoWriteBeforeCoilFailure ==
    (pc = "failed" /\ failure = "coil") =>
        \A p \in Slots : out[p] = Unwritten /\ writes[p] = 0

(* ---------------------------------------------------------------------- *)
(* C2                                                                       *)
(* ---------------------------------------------------------------------- *)
\* C2: a trajectory request whose leading extent is not 3 fails before the
\* iterator is started: no slot is written, no trajectory entry is read.
C2_LeadingAxisCheckedFirst ==
    (entry = "calc_phantom_noncart" /\ dims[0] # 3) =>
        /\ pc = "failed"
        /\ failure = "traj"
        /\ kern = "none"
        /\ todo = {}
        /\ \A p \in Slots : out[p] = Unwritten /\ writes[p] = 0 /\ log[p].reads = {}

C2_Witness ==
    /\ entry = "calc_phantom_noncart"
    /\ dims[0] # 3
    /\ pc = "failed"
    /\ Slots # {}

(* ---------------------------------------------------------------------- *)
(* C3                                                                       *)
(* ---------------------------------------------------------------------- *)
\* C3 as stated: at every entry point, calc_sens included, the strategy
\* applied at an index is the one the coil extent and the domain select.
C3_StrategyByExtentAndDomain ==
    \A p \in Slots : Written(p) => log[p].strat = Strategy(dims[COIL_DIM], kspace_in)

\* C3 amended: the geometry samplers apply the strategy the coil extent and
\* the domain select; calc_sens applies image-domain weighting at every
\* index, also when the coil extent is 1.
C3_StrategyAmended ==
    \A p \in Slots : Written(p) =>
        log[p].strat = IF entry = "calc_sens" THEN "xsens"
                       ELSE Strategy(dims[COIL_DIM], kspace_in)

C3_Witness ==
    /\ entry = "calc_sens"
    /\ dims[COIL_DIM] = 1
    /\ pc = "done"
    /\ \A p \in Slots : Written(p) /\ log[p].strat = "xsens"

(* ---------------------------------------------------------------------- *)
(* C4                                                                       *)
(* ---------------------------------------------------------------------- *)
\* the coordinate the normalizer produces for position p
NormalizedCoord(p) ==
    IF entry = "calc_phantom_noncart"
    THEN TripleCoord(CHOOSE o \in log[p].reads : o + 1 \in log[p].reads)
    ELSE IF kspace_in THEN KSpaceCoord(p) ELSE ImageCoord(p)

GridKSpaceCtx ==
    Data1(dims[COIL_DIM] > 1, [k \in 0 .. 2 |-> IF k = 0 THEN 1 ELSE dims[k]],
          KrnData(TRUE, 10, "shepplogan_mod"), "krn")

\* C5: given the trajectory that reproduces the grid, the trajectory
\* sampler hands the combinator the coordinate of the grid k-space sampler,
\* chooses the same strategy and stores the same value.
C5_TrajectoryMatchesGrid ==
    (entry = "calc_phantom_noncart" /\ dims[0] = 3 /\ traj_in = GridTraj(dims)) =>
        \A p \in Slots : Written(p) =>
            \E g \in {kkernel(GridKSpaceCtx, p)} :
                /\ log[p].mpos = g.mpos
                /\ log[p].strat = g.strat
                /\ out[p] = g.val

(* ---------------------------------------------------------------------- *)
(* C8                                                                       *)
(* ---------------------------------------------------------------------- *)
\* C8: the trajectory sampler reads the two coordinate components of
\* position (p1, p2, c) at the offsets 3 * (p1 + M1 * p2) + 0 and + 1, and
\* different sample positions read different triples.
C8_ReadsMatchingTriple ==
    entry = "calc_phantom_noncart" =>
        /\ \A p \in Slots : Written(p) =>
               log[p].reads = {TripleOffset(p) + 0, TripleOffset(p) + 1}
        /\ \A p, q \in Slots :
               (Written(p) /\ Written(q) /\ <<p[1], p[2]>> # <<q[1], q[2]>>) =>
                   log[p].reads # log[q].reads

(* ---------------------------------------------------------------------- *)
(* C6                                                                       *)
(* ---------------------------------------------------------------------- *)
\* the callback and the context a request's inputs determine
InputKernel ==
    CASE entry = "calc_phantom_noncart" -> "nkernel"
      [] entry = "calc_sens" -> "xkernel"
      [] OTHER -> IF kspace_in THEN "kkernel" ELSE "xkernel"

InputCtx ==
    CASE entry = "calc_phantom_noncart" ->
             Data2(traj_in, md_calc_strides(DIMS, md_select_dims(DIMS, 1 + 2, dims), 1),
                   dims[COIL_DIM] > 1, KrnData(TRUE, 10, "shepplogan_mod"), "krn")
      [] entry = "calc_sens" ->
             Data1(TRUE, [k \in 0 .. 2 |-> dims[k]], NULL, "cnst_one")
      [] OTHER ->
             Data1(dims[COIL_DIM] > 1, [k \in 0 .. 2 |-> dims[k]],
                   KrnData(kspace_in, PresetN[entry], PresetEl[entry]), "krn")

\* every slot is written at most once; when the call returns every slot has
\* been written exactly once and holds the value its position and the
\* inputs determine
C6_SlotsDeterminedByInputs ==
    /\ \A p \in Slots : writes[p] <= 1 /\ (Written(p) <=> out[p] # Unwritten)
    /\ (pc = "done") =>
           \A p \in Slots :
               /\ writes[p] = 1
               /\ out[p] = Kernel(InputKernel, InputCtx, p).val

\* a step of the iteration changes neither the inputs nor the context nor a
\* slot that is already written
C6_CallbackIsLocal ==
    (pc = "sampling") =>
        /\ <<entry, dims, kspace_in, traj_in, zs_data, kern>>' = <<entry, dims, kspace_in, traj_in, zs_data, kern>>
        /\ \A p \in Slots : Written(p) => (out'[p] = out[p] /\ writes'[p] = writes[p])

\* C6: whatever the visiting order, each slot is written once with a value
\* that depends only on its position and the read-only inputs, and the
\* callback changes no shared state; so the final buffer is a function of
\* the inputs alone.
C6_OrderIndependent == []C6_SlotsDeterminedByInputs /\ [][C6_CallbackIsLocal]_vars

C6_Witness ==
    /\ pc = "done"
    /\ entry = "calc_phantom"
    /\ kspace_in
    /\ dims[COIL_DIM] > 1
    /\ Cardinality(Slots) > 2
    /\ \A p \in Slots : writes[p] = 1

(* ---------------------------------------------------------------------- *)
(* C7                                                                       *)
(* ---------------------------------------------------------------------- *)
\* the terms of S_c at coordinate m: coefficient (i, j) of coil c times the
\* phase term of integer frequencies (i - 2, j - 2)
SensField(c, m) ==
    [k \in 1 .. 25 |->
        [coeff |-> <<c, (k - 1) \div 5, (k - 1) % 5>>,
         times |-> [fn |-> "cexpf", fi |-> ((k - 1) \div 5) - 2, fj |-> ((k - 1) % 5) - 2,
                    mpos |-> m, over |-> 4]]]

\* C7: calc_sens never calls the geometry evaluator, and the slot of grid
\* position (x, y) and coil c < 8 holds S_c at the image-domain coordinate
\* times the constant 1; the middle coefficient has frequency zero.
C7_ConstantKernelIsolatesSensitivity ==
    entry = "calc_sens" =>
        \A p \in Slots : Written(p) =>
            /\ p[COIL_DIM] < 8
            /\ log[p].geom = 0
            /\ out[p] = [op |-> "mul", sum |-> SensField(p[COIL_DIM], ImageCoord(p)),
                         by |-> <<One>>]
            /\ out[p].sum[13].coeff = <<p[COIL_DIM], 2, 2>>
            /\ out[p].sum[13].times.fi = 0
            /\ out[p].sum[13].times.fj = 0

C7_Witness ==
    /\ entry = "calc_sens"
    /\ pc = "done"
    /\ dims[COIL_DIM] = MAX_COILS
    /\ \A p \in Slots : Written(p)

(* ---------------------------------------------------------------------- *)
(* C9                                                                       *)
(* ---------------------------------------------------------------------- *)
\* C9: every image-domain component (2x - D) / D lies in [-1, 1), is -1
\* exactly at x = 0 and never +1; every k-space component is (2x - D) / 4.
C9_CoordinateRange ==
    \A p \in Slots : \A k \in {1, 2} : Written(p) =>
        /\ (kern = "xkernel") =>
              /\ -dims[k] <= 2 * p[k] - dims[k]
              /\ 2 * p[k] - dims[k] < dims[k]
              /\ log[p].mpos[k] = Frac(2 * p[k] - dims[k], dims[k])
              /\ FracLeq(<<-1, 1>>, log[p].mpos[k])
              /\ FracLess(log[p].mpos[k], <<1, 1>>)
              /\ (log[p].mpos[k] = <<-1, 1>>) <=> (p[k] = 0)
        /\ (kern = "kkernel") =>
              /\ log[p].mpos[k][1] * 4 = (2 * p[k] - dims[k]) * log[p].mpos[k][2]
              /\ log[p].mpos[k][2] \in {1, 2, 4}

C9_Witness ==
    /\ kern = "xkernel"
    /\ pc = "done"
    /\ dims[1] = MaxExtent
    /\ \E p \in Slots : Written(p) /\ p[1] = dims[1] - 1 /\ log[p].mpos[1] # <<-1, 1>>

(* ---------------------------------------------------------------------- *)
(* C10                                                                      *)
(* ---------------------------------------------------------------------- *)
ValidInputs ==
    /\ entry # "none"
    /\ dims[COIL_DIM] \in 1 .. MAX_COILS
    /\ (entry = "calc_phantom_noncart") => dims[0] = 3

\* the dimension vector of the output buffer
OutputDims ==
    IF entry = "calc_phantom_noncart" THEN md_select_dims(DIMS, 2 + 4 + 8, dims) ELSE dims

C10_NoAssertFires ==
    ValidInputs =>
        /\ pc # "failed"
        /\ failure = "none"
        /\ \A p \in Slots : writes[p] <= 1
        /\ Cardinality({p \in Slots : Written(p)}) + Cardinality(todo) = Cardinality(Indices(OutputDims))
        /\ (pc = "done") => \A p \in Indices(OutputDims) : p \in Slots /\ Written(p)

\* a step of the iteration either returns or takes one position off the
\* finite set of pending positions
C10_StepDecreases ==
    (ValidInputs /\ pc = "sampling") =>
        \/ pc' = "done" /\ todo = {}
        \/ pc' = "sampling" /\ todo' \subseteq todo /\ Cardinality(todo') = Cardinality(todo) - 1

\* C10: for valid inputs no assert fires, every position is visited at most
\* once, the number of pending positions strictly decreases until the call
\* returns, and then every index of the output dimension vector has been
\* written.
C10_ValidCallCompletes ==
    []C10_NoAssertFires /\ [][C10_StepDecreases]_vars

C10_Witness ==
    /\ ValidInputs
    /\ pc = "done"
    /\ entry = "calc_phantom_noncart"
    /\ dims[COIL_DIM] = MAX_COILS
    /\ \A p \in Indices(OutputDims) : Written(p)

====
